---- MODULE Spec2Model ----
(***************************************************************************)
(* The repository layer of the trading journal (user_repository.js, which  *)
(* also holds the trade repository) over one shared sqlite3 handle.        *)
(*                                                                         *)
(* The handle is modelled as node-sqlite3 drives it: every db.run/db.get   *)
(* is a statement that is first queued on the Database, then dispatched to *)
(* the thread pool, then executed atomically by SQLite, after which its    *)
(* callback runs.  Statements queued inside db.serialize are exclusive:    *)
(* they start only when nothing else is pending and nothing else starts    *)
(* while they are pending.  Statements queued outside db.serialize are     *)
(* dispatched together and execute in either order.  A transaction belongs *)
(* to the connection, not to the caller that began it.                     *)
(***************************************************************************)
EXTENDS Integers, Sequences, FiniteSets, TLC

\* ---------------------------------------------------------------- bounds
MaxCalls == 3        \* concurrent createUserWithSettings calls
MaxClients == 1      \* concurrent callers of the single-statement operations
SignupOps == 1       \* createUser operations beside the calls
ReadOps == 2         \* lookups of one reader
TradeOps == 3        \* trade operations
MaxClock == 1        \* ticks of the wall clock
LedgerOps == 4       \* operations on the trade ledger
AccountOps == 4      \* operations on sub-accounts and their trades
MaxLimit == 2        \* page sizes of the paged queries
UserOps == 3         \* createUser operations and look-ups
MaxConnections == 2  \* sqlite3.Database objects constructed
MaxProcs == 2        \* concurrent callers of the connection provider
ConnOps == 4         \* calls of connectToDatabase, initDB and closeDb
MaxFaults == 1       \* failures of the store
MaxInits == 1        \* calls of initDB

Calls == 1..MaxCalls
Clients == 1..MaxClients

\* ----------------------------------------------------------- value domains
Usernames == {"alice", "bob"}
Emails == {"a@x.com", "b@x.com"}
PasswordHashes == {"hashed_pw"}

\* JavaScript undefined (an omitted field) and SQL NULL
Undefined == "undefined"
Null == "NULL"

\* defaultSettings objects a caller passes to createUserWithSettings
DefaultSettingsInputs ==
    { [default_currency |-> "EUR", theme |-> Undefined],
      [default_currency |-> Undefined, theme |-> "dark"] }

\* the settings the concurrent sign-ups pass: one field given, one omitted
SignupSettings == [default_currency |-> "EUR", theme |-> Undefined]

NoRow == [id |-> 0]
NoError == ""

VARIABLES
    db,        \* the committed-or-pending contents seen through the handle
    journal,   \* the rollback journal: the contents at BEGIN, or NoJournal
    queue,     \* Database queue: statements submitted, not yet dispatched
    running,   \* statements dispatched to the thread pool, not yet executed
    calls,     \* the createUserWithSettings calls
    clients,   \* the callers of the single-statement operations
    clock,     \* the wall clock new Date() reads
    ops,       \* single-statement operations issued so far
    closed,    \* history: the trade ids closeTrade has resolved true for
    handle,    \* database_test_env.js: the module variable db, 0 for null
    made,      \* sqlite3.Database objects constructed so far
    connections, \* the constructed Database objects
    procs,     \* the callers of connectToDatabase, initDB and closeDb
    faults,    \* failures of the store so far
    inits      \* initDB calls so far

connVars == <<handle, made, connections, procs, faults, inits>>

vars == <<db, journal, queue, running, calls, clients, clock, ops, closed,
          connVars>>

NoJournal == [active |-> FALSE]

\* =====================================================================
\* SQLite: the schema's constraints and the statements the code issues
\* =====================================================================

\* the two modules that create the schema
Schemas == {"database.js", "database_test_env.js"}

EmptyDb ==
    [ users |-> {}, user_settings |-> {}, sub_accounts |-> {}, trades |-> {},
      seq |-> [users |-> 0, sub_accounts |-> 0, trades |-> 0],
      schema |-> "database_test_env.js" ]

\* username TEXT UNIQUE NOT NULL, email TEXT UNIQUE NOT NULL in
\* database_test_env.js; username TEXT NOT NULL, email TEXT NOT NULL in
\* database.js
UsersUnique(d) == d.schema = "database_test_env.js"

ForeignKeysOn == TRUE

UniqueUsername(d, username) == \A u \in d.users : u.username # username
UniqueEmail(d, email) == \A u \in d.users : u.email # email

UserExists(d, id) == \E u \in d.users : u.id = id

SubAccountExists(d, id) == \E a \in d.sub_accounts : a.id = id

SqlResult(d, err, lastID, changes) ==
    [db |-> d, err |-> err, lastID |-> lastID, changes |-> changes]

\* INSERT INTO users (username, email, password_hash, created_at, updated_at)
InsertUser(d, username, email, passwordHash, now, by) ==
    IF UsersUnique(d) /\ ~UniqueUsername(d, username)
    THEN SqlResult(d, "SQLITE_CONSTRAINT: UNIQUE constraint failed: users.username", 0, 0)
    ELSE IF UsersUnique(d) /\ ~UniqueEmail(d, email)
    THEN SqlResult(d, "SQLITE_CONSTRAINT: UNIQUE constraint failed: users.email", 0, 0)
    ELSE LET id == d.seq.users + 1
             row == [ id |-> id, username |-> username, email |-> email,
                      password_hash |-> passwordHash,
                      created_at |-> now, updated_at |-> now, by |-> by ]
         IN SqlResult([d EXCEPT !.users = @ \cup {row}, !.seq.users = id],
                      NoError, id, 1)

SettingsForeignKeyOff(d, user_id) == TRUE

SettingsForeignKey(d, user_id) == ForeignKeysOn => UserExists(d, user_id)

\* INSERT INTO user_settings (user_id, default_currency, theme, created_at, updated_at)
InsertSettings(d, user_id, default_currency, theme, now, by) ==
    IF \E s \in d.user_settings : s.user_id = user_id
    THEN SqlResult(d, "SQLITE_CONSTRAINT: UNIQUE constraint failed: user_settings.user_id", 0, 0)
    ELSE IF ~SettingsForeignKey(d, user_id)
    THEN SqlResult(d, "SQLITE_CONSTRAINT: FOREIGN KEY constraint failed", 0, 0)
    ELSE LET row == [ user_id |-> user_id, default_currency |-> default_currency,
                      theme |-> theme, created_at |-> now, updated_at |-> now,
                      by |-> by ]
         IN SqlResult([d EXCEPT !.user_settings = @ \cup {row}], NoError, user_id, 1)

\* SELECT * FROM users WHERE id = ?   (row || null)
SelectUserById(d, id) ==
    IF UserExists(d, id) THEN CHOOSE u \in d.users : u.id = id ELSE NoRow

\* SELECT * FROM users WHERE email = ?
SelectUserByEmail(d, email) ==
    IF \E u \in d.users : u.email = email
    THEN CHOOSE u \in d.users : u.email = email ELSE NoRow

\* SELECT * FROM user_settings WHERE user_id = ?
SelectSettingsByUserId(d, userId) ==
    IF \E s \in d.user_settings : s.user_id = userId
    THEN CHOOSE s \in d.user_settings : s.user_id = userId ELSE NoRow

\* BEGIN TRANSACTION / COMMIT / ROLLBACK on the connection
BeginTransaction(d, j) ==
    IF j.active
    THEN [db |-> d, journal |-> j,
          err |-> "SQLITE_ERROR: cannot start a transaction within a transaction"]
    ELSE [db |-> d, journal |-> [active |-> TRUE, saved |-> d], err |-> NoError]

Commit(d, j) ==
    IF j.active
    THEN [db |-> d, journal |-> NoJournal, err |-> NoError]
    ELSE [db |-> d, journal |-> j,
          err |-> "SQLITE_ERROR: cannot commit - no transaction is active"]

Rollback(d, j) ==
    IF j.active
    THEN [db |-> j.saved, journal |-> NoJournal, err |-> NoError]
    ELSE [db |-> d, journal |-> j,
          err |-> "SQLITE_ERROR: cannot rollback - no transaction is active"]

\* =====================================================================
\* node-sqlite3: the Database queue
\* =====================================================================

Stmt(op, owner, who, exclusive) ==
    [op |-> op, owner |-> owner, who |-> who, exclusive |-> exclusive]

Locked(r) == \E s \in r : s.exclusive

\* Database::Process: dispatch from the head of the queue while allowed
RECURSIVE Process(_, _)
Process(q, r) ==
    IF q = <<>> \/ Locked(r) THEN [queue |-> q, running |-> r]
    ELSE IF Head(q).exclusive
    THEN IF r = {} THEN [queue |-> Tail(q), running |-> {Head(q)}]
         ELSE [queue |-> q, running |-> r]
    ELSE Process(Tail(q), r \cup {Head(q)})

\* a callback (or a caller) submits statements, then the Database processes
Submit(q, r, stmts) == Process(q \o stmts, r)

\* =====================================================================
\* createUserWithSettings
\* =====================================================================

IdleCall ==
    [ pc |-> "idle", username |-> "", email |-> "", passwordHash |-> "",
      defaultSettings |-> [default_currency |-> Undefined, theme |-> Undefined],
      now |-> 0, userId |-> 0, promise |-> "pending", value |-> 0, reason |-> NoError,
      beginErr |-> NoError, failedAt |-> "", stepErr |-> NoError,
      rolledBack |-> FALSE, before |-> EmptyDb ]

\* the promise settles once: later resolve/reject calls are ignored
Resolve(c, id) ==
    IF c.promise = "pending" THEN [c EXCEPT !.promise = "resolved", !.value = id] ELSE c
Reject(c, err) ==
    IF c.promise = "pending" THEN [c EXCEPT !.promise = "rejected", !.reason = err] ELSE c

OrDefaultAlways(x, dflt) == dflt

\* x || dflt
OrDefault(x, dflt) == IF x \in {Undefined, Null, ""} THEN dflt ELSE x

\* the call itself: db.serialize queues BEGIN and the user INSERT
createUserWithSettings(c, username, email, passwordHash, defaultSettings) ==
    /\ calls[c].pc = "idle"
    /\ \A b \in Calls : b < c => calls[b].pc # "idle"
    /\ calls' = [calls EXCEPT ![c] =
                    [IdleCall EXCEPT !.pc = "begin", !.username = username,
                                     !.email = email, !.passwordHash = passwordHash,
                                     !.defaultSettings = defaultSettings, !.now = clock,
                                     !.before = db]]
    /\ LET p == Submit(queue, running,
                       << Stmt("BEGIN", "call", c, TRUE),
                          Stmt("INSERT_USER", "call", c, TRUE) >>)
       IN queue' = p.queue /\ running' = p.running
    /\ UNCHANGED <<db, journal, clients, clock, ops, closed, connVars>>

Finish(s, stmts) ==
    LET p == Submit(queue, running \ {s}, stmts)
    IN queue' = p.queue /\ running' = p.running

\* BEGIN TRANSACTION executes; its callback rejects on error and returns
RunBegin(c) ==
    LET s == Stmt("BEGIN", "call", c, TRUE)
        r == BeginTransaction(db, journal)
    IN /\ s \in running
       /\ db' = r.db /\ journal' = r.journal
       /\ calls' = [calls EXCEPT ![c] =
                       [(IF r.err # NoError THEN Reject(@, r.err) ELSE @)
                            EXCEPT !.pc = "insertUser", !.beginErr = r.err]]
       /\ Finish(s, <<>>)
       /\ UNCHANGED <<clients, clock, ops, closed, connVars>>

\* the user INSERT executes; its callback rolls back or inserts the settings
RunUserInsert(c) ==
    LET s == Stmt("INSERT_USER", "call", c, TRUE)
        k == calls[c]
        r == InsertUser(db, k.username, k.email, k.passwordHash, k.now,
                        c)
    IN /\ s \in running
       /\ db' = r.db /\ journal' = journal
       /\ IF r.err # NoError
          THEN /\ calls' = [calls EXCEPT ![c] =
                              [@ EXCEPT !.pc = "rollback", !.failedAt = "user",
                                        !.stepErr = r.err]]
               /\ Finish(s, << Stmt("ROLLBACK", "call", c, FALSE) >>)
          ELSE /\ calls' = [calls EXCEPT ![c] =
                              [@ EXCEPT !.pc = "insertSettings", !.userId = r.lastID]]
               /\ Finish(s, << Stmt("INSERT_SETTINGS", "call", c, FALSE) >>)
       /\ UNCHANGED <<clients, clock, ops, closed, connVars>>

\* the settings INSERT executes; its callback rolls back or commits
RunSettingsInsert(c) ==
    LET s == Stmt("INSERT_SETTINGS", "call", c, FALSE)
        k == calls[c]
        r == InsertSettings(db, k.userId,
                            OrDefault(k.defaultSettings.default_currency, "USD"),
                            OrDefault(k.defaultSettings.theme, "light"), k.now, c)
    IN /\ s \in running
       /\ db' = r.db /\ journal' = journal
       /\ IF r.err # NoError
          THEN /\ calls' = [calls EXCEPT ![c] =
                              [@ EXCEPT !.pc = "rollback", !.failedAt = "settings",
                                        !.stepErr = r.err]]
               /\ Finish(s, << Stmt("ROLLBACK", "call", c, FALSE) >>)
          ELSE /\ calls' = [calls EXCEPT ![c] = [@ EXCEPT !.pc = "commit"]]
               /\ Finish(s, << Stmt("COMMIT", "call", c, FALSE) >>)
       /\ UNCHANGED <<clients, clock, ops, closed, connVars>>

\* COMMIT executes; its callback resolves, or rolls back on error
RunCommit(c) ==
    LET s == Stmt("COMMIT", "call", c, FALSE)
        r == Commit(db, journal)
    IN /\ s \in running
       /\ db' = r.db /\ journal' = r.journal
       /\ IF r.err # NoError
          THEN /\ calls' = [calls EXCEPT ![c] =
                              [@ EXCEPT !.pc = "rollback", !.failedAt = "commit",
                                        !.stepErr = r.err]]
               /\ Finish(s, << Stmt("ROLLBACK", "call", c, FALSE) >>)
          ELSE /\ calls' = [calls EXCEPT ![c] =
                              [Resolve(@, @.userId) EXCEPT !.pc = "done"]]
               /\ Finish(s, <<>>)
       /\ UNCHANGED <<clients, clock, ops, closed, connVars>>

\* ROLLBACK executes; its callback ignores any error and rejects with the
\* error of the step that failed
RunRollback(c) ==
    LET s == Stmt("ROLLBACK", "call", c, FALSE)
        r == Rollback(db, journal)
    IN /\ s \in running
       /\ db' = r.db /\ journal' = r.journal
       /\ calls' = [calls EXCEPT ![c] =
                       [Reject(@, @.stepErr) EXCEPT !.pc = "done", !.rolledBack = TRUE]]
       /\ Finish(s, <<>>)
       /\ UNCHANGED <<clients, clock, ops, closed, connVars>>

\* =====================================================================
\* the single-statement operations
\* =====================================================================

NoRequest == [op |-> "none"]
NoResult == [op |-> "none"]

IdleClient == [req |-> NoRequest, res |-> NoResult, prev |-> NoResult]

\* a caller issues one operation: one statement, queued outside db.serialize
Issue(k, req) ==
    /\ clients[k].req = NoRequest
    /\ ops' = ops + 1
    /\ clients' = [clients EXCEPT ![k].req = req]
    /\ LET p == Submit(queue, running, << Stmt(req.op, "client", k, FALSE) >>)
       IN queue' = p.queue /\ running' = p.running
    /\ UNCHANGED <<db, journal, calls, clock, closed, connVars>>

\* the statement's callback settles the caller's promise
Settle(k, res) ==
    clients' = [clients EXCEPT ![k] = [req |-> NoRequest, res |-> res, prev |-> @.res]]

Executes(k, op) ==
    /\ clients[k].req.op = op
    /\ Stmt(op, "client", k, FALSE) \in running

createUser(k, username, email, passwordHash) ==
    Issue(k, [op |-> "createUser", username |-> username, email |-> email,
              passwordHash |-> passwordHash, now |-> clock])

RunCreateUser(k) ==
    LET q == clients[k].req
        r == InsertUser(db, q.username, q.email, q.passwordHash, q.now, 0)
    IN /\ Executes(k, "createUser")
       /\ db' = r.db
       /\ Settle(k, [op |-> "createUser", req |-> q,
                     settled |-> IF r.err = NoError THEN "resolved" ELSE "rejected",
                     id |-> r.lastID, err |-> r.err])
       /\ Finish(Stmt("createUser", "client", k, FALSE), <<>>)
       /\ UNCHANGED <<journal, calls, clock, ops, closed, connVars>>

findUserById(k, id) ==
    Issue(k, [op |-> "findUserById", id |-> id])

RunFindUserById(k) ==
    LET q == clients[k].req
    IN /\ Executes(k, "findUserById")
       /\ Settle(k, [op |-> "findUserById", req |-> q, settled |-> "resolved",
                     row |-> SelectUserById(db, q.id)])
       /\ Finish(Stmt("findUserById", "client", k, FALSE), <<>>)
       /\ UNCHANGED <<db, journal, calls, clock, ops, closed, connVars>>

findUserByEmail(k, email) ==
    Issue(k, [op |-> "findUserByEmail", email |-> email])

RunFindUserByEmail(k) ==
    LET q == clients[k].req
    IN /\ Executes(k, "findUserByEmail")
       /\ Settle(k, [op |-> "findUserByEmail", req |-> q, settled |-> "resolved",
                     row |-> SelectUserByEmail(db, q.email)])
       /\ Finish(Stmt("findUserByEmail", "client", k, FALSE), <<>>)
       /\ UNCHANGED <<db, journal, calls, clock, ops, closed, connVars>>

findSettingsByUserId(k, userId) ==
    Issue(k, [op |-> "findSettingsByUserId", userId |-> userId])

RunFindSettingsByUserId(k) ==
    LET q == clients[k].req
    IN /\ Executes(k, "findSettingsByUserId")
       /\ Settle(k, [op |-> "findSettingsByUserId", req |-> q, settled |-> "resolved",
                     row |-> SelectSettingsByUserId(db, q.userId)])
       /\ Finish(Stmt("findSettingsByUserId", "client", k, FALSE), <<>>)
       /\ UNCHANGED <<db, journal, calls, clock, ops, closed, connVars>>

\* time passes
Tick ==
    /\ clock < MaxClock
    /\ clock' = clock + 1
    /\ UNCHANGED <<db, journal, queue, running, calls, clients, ops, closed, connVars>>


\* =====================================================================
\* the trade repository
\* =====================================================================

\* an undefined parameter is left unbound, which SQLite reads as NULL
Bind(x) == IF x = Undefined THEN Null ELSE x

\* COALESCE(?, column)
Coalesce(x, y) == IF x # Null THEN x ELSE y

TradeExists(d, id) == \E t \in d.trades : t.id = id

TradeCheckNoQuantity(quantity, direction, status) ==
    /\ direction \in {"long", "short"}
    /\ status \in {"open", "closed"}

TradeCheck(quantity, direction, status) ==
    /\ quantity > 0
    /\ direction \in {"long", "short"}
    /\ status \in {"open", "closed"}

TradeForeignKeysOff(d, user_id, sub_account_id) == TRUE

TradeForeignKeys(d, user_id, sub_account_id) ==
    ForeignKeysOn =>
        /\ UserExists(d, user_id)
        /\ sub_account_id = <<>> \/ SubAccountExists(d, sub_account_id[1])

\* INSERT INTO trades (...) VALUES (?, ?, ?, ?, ?, ?, ?, ?, ?, ?, ?, ?, ?, ?)
InsertTrade(d, p, now) ==
    IF Null \in {Bind(p.ticker), Bind(p.entryPrice), Bind(p.direction), Bind(p.entryDate)}
    THEN SqlResult(d, "SQLITE_CONSTRAINT: NOT NULL constraint failed", 0, 0)
    ELSE IF ~TradeCheck(p.quantity, p.direction, p.status)
    THEN SqlResult(d, "SQLITE_CONSTRAINT: CHECK constraint failed", 0, 0)
    ELSE IF ~TradeForeignKeys(d, p.userId, p.subAccountId)
    THEN SqlResult(d, "SQLITE_CONSTRAINT: FOREIGN KEY constraint failed", 0, 0)
    ELSE LET id == d.seq.trades + 1
             row == [ id |-> id, user_id |-> p.userId,
                      sub_account_id |-> p.subAccountId, ticker |-> p.ticker,
                      quantity |-> p.quantity, entry_price |-> p.entryPrice,
                      direction |-> p.direction, entry_date |-> p.entryDate,
                      exit_date |-> Bind(p.exitDate), exit_price |-> Bind(p.exitPrice),
                      notes |-> Bind(p.notes), commission |-> Bind(p.commission),
                      status |-> p.status, created_at |-> now, updated_at |-> now ]
         IN SqlResult([d EXCEPT !.trades = @ \cup {row}, !.seq.trades = id],
                      NoError, id, 1)

\* UPDATE trades SET exit_price = ?, exit_date = ?, status = 'closed',
\*   updated_at = ?, notes = COALESCE(?, notes), commission = COALESCE(?, commission)
\* WHERE id = ? and status = 'open'
CloseWhereAnyStatus(t, id) == t.id = id

CloseWhere(t, id) == t.id = id /\ t.status = "open"

CloseSetKeepsTimestamp(t, exitPrice, exitDate, now, notes, commission) ==
    [t EXCEPT !.exit_price = Bind(exitPrice), !.exit_date = Bind(exitDate),
              !.status = "closed",
              !.notes = Coalesce(Bind(notes), @),
              !.commission = Coalesce(Bind(commission), @)]

CloseSet(t, exitPrice, exitDate, now, notes, commission) ==
    [t EXCEPT !.exit_price = Bind(exitPrice), !.exit_date = Bind(exitDate),
              !.status = "closed", !.updated_at = now,
              !.notes = Coalesce(Bind(notes), @),
              !.commission = Coalesce(Bind(commission), @)]

UpdateClose(d, exitPrice, exitDate, now, notes, commission, id) ==
    LET hit == {t \in d.trades : CloseWhere(t, id)}
        new == {CloseSet(t, exitPrice, exitDate, now, notes, commission) : t \in hit}
    IN SqlResult([d EXCEPT !.trades = (@ \ hit) \cup new], NoError, 0, Cardinality(hit))

\* UPDATE trades SET updated_at = ?[, notes = ?][, commission = ?] WHERE id = ?
DetailsSet(t, now, notes, commission) ==
    [t EXCEPT !.updated_at = now,
              !.notes = IF notes # Undefined THEN Bind(notes) ELSE @,
              !.commission = IF commission # Undefined THEN Bind(commission) ELSE @]

UpdateDetailsOpenOnly(d, now, notes, commission, id) ==
    LET hit == {t \in d.trades : t.id = id /\ t.status = "open"}
        new == {DetailsSet(t, now, notes, commission) : t \in hit}
    IN SqlResult([d EXCEPT !.trades = (@ \ hit) \cup new], NoError, 0, Cardinality(hit))

UpdateDetails(d, now, notes, commission, id) ==
    LET hit == {t \in d.trades : t.id = id}
        new == {DetailsSet(t, now, notes, commission) : t \in hit}
    IN SqlResult([d EXCEPT !.trades = (@ \ hit) \cup new], NoError, 0, Cardinality(hit))

\* DELETE FROM trades WHERE id = ?
DeleteTradeRow(d, id) ==
    LET hit == {t \in d.trades : t.id = id}
    IN SqlResult([d EXCEPT !.trades = @ \ hit], NoError, 0, Cardinality(hit))

\* SELECT * FROM trades WHERE id = ?
SelectTradeById(d, id) ==
    IF TradeExists(d, id) THEN CHOOSE t \in d.trades : t.id = id ELSE NoRow

createTrade(k, tradeData) ==
    Issue(k, [op |-> "createTrade", tradeData |-> tradeData, now |-> clock])

RunCreateTrade(k) ==
    LET q == clients[k].req
        td == q.tradeData
        r == InsertTrade(db, [td EXCEPT !.status = OrDefault(@, "open")], q.now)
    IN /\ Executes(k, "createTrade")
       /\ db' = r.db
       /\ Settle(k, [op |-> "createTrade", req |-> q,
                     settled |-> IF r.err = NoError THEN "resolved" ELSE "rejected",
                     id |-> r.lastID, err |-> r.err])
       /\ Finish(Stmt("createTrade", "client", k, FALSE), <<>>)
       /\ UNCHANGED <<journal, calls, clock, ops, closed, connVars>>

closeTrade(k, closeData) ==
    Issue(k, [op |-> "closeTrade", closeData |-> closeData, now |-> clock])

RunCloseTrade(k) ==
    LET q == clients[k].req
        cd == q.closeData
        r == UpdateClose(db, cd.exitPrice, cd.exitDate, q.now, cd.notes,
                         cd.commission, cd.id)
    IN /\ Executes(k, "closeTrade")
       /\ db' = r.db
       /\ Settle(k, [op |-> "closeTrade", req |-> q, settled |-> "resolved",
                     flag |-> r.changes > 0])
       /\ Finish(Stmt("closeTrade", "client", k, FALSE), <<>>)
       /\ closed' = IF r.changes > 0 THEN closed \cup {cd.id} ELSE closed
       /\ UNCHANGED <<journal, calls, clock, ops, connVars>>

updateTradeDetailsWritesAnyway(k, id, updates) ==
    /\ updates.notes = Undefined /\ updates.commission = Undefined
    /\ Issue(k, [op |-> "updateTradeDetails", id |-> id, updates |-> updates,
                 now |-> clock])

\* nothing to update: Promise.resolve(false), no statement is issued
updateTradeDetailsNothing(k, id, updates) ==
    /\ updates.notes = Undefined /\ updates.commission = Undefined
    /\ clients[k].req = NoRequest
    /\ clients' = [clients EXCEPT ![k] =
          [req |-> NoRequest,
           res |-> [op |-> "updateTradeDetails",
                    req |-> [op |-> "updateTradeDetails", id |-> id,
                             updates |-> updates, now |-> clock],
                    settled |-> "resolved", flag |-> FALSE],
           prev |-> @.res]]
    /\ ops' = ops + 1
    /\ UNCHANGED <<db, journal, queue, running, calls, clock, closed, connVars>>

updateTradeDetails(k, id, updates) ==
    \/ updateTradeDetailsNothing(k, id, updates)
    \/ /\ ~(updates.notes = Undefined /\ updates.commission = Undefined)
       /\ Issue(k, [op |-> "updateTradeDetails", id |-> id, updates |-> updates,
                    now |-> clock])

RunUpdateTradeDetails(k) ==
    LET q == clients[k].req
        r == UpdateDetails(db, q.now, q.updates.notes, q.updates.commission, q.id)
    IN /\ Executes(k, "updateTradeDetails")
       /\ db' = r.db
       /\ Settle(k, [op |-> "updateTradeDetails", req |-> q, settled |-> "resolved",
                     flag |-> r.changes > 0])
       /\ Finish(Stmt("updateTradeDetails", "client", k, FALSE), <<>>)
       /\ UNCHANGED <<journal, calls, clock, ops, closed, connVars>>

deleteTrade(k, id) == Issue(k, [op |-> "deleteTrade", id |-> id])

RunDeleteTrade(k) ==
    LET q == clients[k].req
        r == DeleteTradeRow(db, q.id)
    IN /\ Executes(k, "deleteTrade")
       /\ db' = r.db
       /\ Settle(k, [op |-> "deleteTrade", req |-> q, settled |-> "resolved",
                     flag |-> r.changes > 0])
       /\ Finish(Stmt("deleteTrade", "client", k, FALSE), <<>>)
       /\ UNCHANGED <<journal, calls, clock, ops, closed, connVars>>

\* =====================================================================
\* the sub-account repository
\* =====================================================================

\* UNIQUE (user_id, name), for the row with the given id (0: a new row)
UniqueSubAccountNameOff(d, id, user_id, name) == TRUE

\* UNIQUE (user_id, name)
UniqueSubAccountName(d, id, user_id, name) ==
    \A a \in d.sub_accounts : (a.user_id = user_id /\ a.name = name) => a.id = id

\* INSERT INTO sub_accounts (user_id, name, description, created_at, updated_at)
InsertSubAccount(d, userId, name, description, now) ==
    IF Bind(name) = Null
    THEN SqlResult(d, "SQLITE_CONSTRAINT: NOT NULL constraint failed: sub_accounts.name", 0, 0)
    ELSE IF ~UniqueSubAccountName(d, 0, userId, name)
    THEN SqlResult(d, "SQLITE_CONSTRAINT: UNIQUE constraint failed: sub_accounts.user_id, sub_accounts.name", 0, 0)
    ELSE IF ForeignKeysOn /\ ~UserExists(d, userId)
    THEN SqlResult(d, "SQLITE_CONSTRAINT: FOREIGN KEY constraint failed", 0, 0)
    ELSE LET id == d.seq.sub_accounts + 1
             row == [ id |-> id, user_id |-> userId, name |-> name,
                      description |-> Bind(description), broker |-> Null,
                      created_at |-> now, updated_at |-> now ]
         IN SqlResult([d EXCEPT !.sub_accounts = @ \cup {row},
                                !.seq.sub_accounts = id], NoError, id, 1)

UpdateSubAccountRowMerges(d, name, description, broker, now, id) ==
    LET hit == {a \in d.sub_accounts : a.id = id}
        new == {[a EXCEPT !.name = name,
                          !.description = Coalesce(Bind(description), @),
                          !.broker = Coalesce(Bind(broker), @),
                          !.updated_at = now] : a \in hit}
    IN IF hit = {} THEN SqlResult(d, NoError, 0, 0)
       ELSE IF \E a \in hit : ~UniqueSubAccountName(d, a.id, a.user_id, name)
       THEN SqlResult(d, "SQLITE_CONSTRAINT: UNIQUE constraint failed: sub_accounts.user_id, sub_accounts.name", 0, 0)
       ELSE SqlResult([d EXCEPT !.sub_accounts = (@ \ hit) \cup new], NoError, 0,
                      Cardinality(hit))

\* UPDATE sub_accounts SET name = ?, description = ?, broker = ?, updated_at = ?
\* WHERE id = ?
UpdateSubAccountRow(d, name, description, broker, now, id) ==
    LET hit == {a \in d.sub_accounts : a.id = id}
        new == {[a EXCEPT !.name = name, !.description = Bind(description),
                          !.broker = Bind(broker), !.updated_at = now] : a \in hit}
    IN IF hit = {} THEN SqlResult(d, NoError, 0, 0)
       ELSE IF Bind(name) = Null
       THEN SqlResult(d, "SQLITE_CONSTRAINT: NOT NULL constraint failed: sub_accounts.name", 0, 0)
       ELSE IF \E a \in hit : ~UniqueSubAccountName(d, a.id, a.user_id, name)
       THEN SqlResult(d, "SQLITE_CONSTRAINT: UNIQUE constraint failed: sub_accounts.user_id, sub_accounts.name", 0, 0)
       ELSE SqlResult([d EXCEPT !.sub_accounts = (@ \ hit) \cup new], NoError, 0,
                      Cardinality(hit))

SetNullSubAccountCascades(trades, ids) ==
    { t \in trades : t.sub_account_id = <<>> \/ t.sub_account_id[1] \notin ids }

\* FOREIGN KEY (sub_account_id) REFERENCES sub_accounts(id) ON DELETE SET NULL
SetNullSubAccount(trades, ids) ==
    { IF t.sub_account_id # <<>> /\ t.sub_account_id[1] \in ids
      THEN [t EXCEPT !.sub_account_id = <<>>] ELSE t : t \in trades }

\* DELETE FROM sub_accounts WHERE id = ?
DeleteSubAccountRow(d, id) ==
    LET hit == {a \in d.sub_accounts : a.id = id}
    IN SqlResult([d EXCEPT !.sub_accounts = @ \ hit,
                           !.trades = IF ForeignKeysOn
                                      THEN SetNullSubAccount(@, {a.id : a \in hit})
                                      ELSE @],
                 NoError, 0, Cardinality(hit))

createSubAccount(k, userId, name, description) ==
    Issue(k, [op |-> "createSubAccount", userId |-> userId, name |-> name,
              description |-> description, now |-> clock])

RunCreateSubAccount(k) ==
    LET q == clients[k].req
        r == InsertSubAccount(db, q.userId, q.name, q.description, q.now)
    IN /\ Executes(k, "createSubAccount")
       /\ db' = r.db
       /\ Settle(k, [op |-> "createSubAccount", req |-> q,
                     settled |-> IF r.err = NoError THEN "resolved" ELSE "rejected",
                     id |-> r.lastID, err |-> r.err])
       /\ Finish(Stmt("createSubAccount", "client", k, FALSE), <<>>)
       /\ UNCHANGED <<journal, calls, clock, ops, closed, connVars>>

updateSubAccount(k, id, name, description, broker) ==
    Issue(k, [op |-> "updateSubAccount", id |-> id, name |-> name,
              description |-> description, broker |-> broker, now |-> clock])

RunUpdateSubAccount(k) ==
    LET q == clients[k].req
        r == UpdateSubAccountRow(db, q.name, q.description, q.broker, q.now, q.id)
    IN /\ Executes(k, "updateSubAccount")
       /\ db' = r.db
       /\ Settle(k, [op |-> "updateSubAccount", req |-> q,
                     settled |-> IF r.err = NoError THEN "resolved" ELSE "rejected",
                     flag |-> r.changes > 0, err |-> r.err])
       /\ Finish(Stmt("updateSubAccount", "client", k, FALSE), <<>>)
       /\ UNCHANGED <<journal, calls, clock, ops, closed, connVars>>

deleteSubAccount(k, id) == Issue(k, [op |-> "deleteSubAccount", id |-> id])

RunDeleteSubAccount(k) ==
    LET q == clients[k].req
        r == DeleteSubAccountRow(db, q.id)
    IN /\ Executes(k, "deleteSubAccount")
       /\ db' = r.db
       /\ Settle(k, [op |-> "deleteSubAccount", req |-> q, settled |-> "resolved",
                     flag |-> r.changes > 0])
       /\ Finish(Stmt("deleteSubAccount", "client", k, FALSE), <<>>)
       /\ UNCHANGED <<journal, calls, clock, ops, closed, connVars>>

\* =====================================================================
\* the paged queries
\* =====================================================================

\* the order of the ISO 8601 texts; NULL sorts below every text
DateOrder(x) ==
    IF x = Null THEN 0 ELSE IF x = "day1" THEN 1 ELSE IF x = "day2" THEN 2 ELSE 3

\* ORDER BY exit_date DESC, entry_date DESC; rows that tie come out in the
\* order of the scan, which is the order of their ids
Before(a, b) ==
    \/ DateOrder(a.exit_date) > DateOrder(b.exit_date)
    \/ /\ DateOrder(a.exit_date) = DateOrder(b.exit_date)
       /\ DateOrder(a.entry_date) > DateOrder(b.entry_date)
    \/ /\ DateOrder(a.exit_date) = DateOrder(b.exit_date)
       /\ DateOrder(a.entry_date) = DateOrder(b.entry_date)
       /\ a.id < b.id

RECURSIVE OrderBy(_)
OrderBy(rows) ==
    IF rows = {} THEN <<>>
    ELSE LET first == CHOOSE a \in rows : \A b \in rows \ {a} : Before(a, b)
         IN <<first>> \o OrderBy(rows \ {first})

LimitOffsetOverlaps(rows, limit, offset) ==
    SubSeq(rows, IF offset = 0 THEN 1 ELSE offset,
           IF offset + limit < Len(rows) THEN offset + limit ELSE Len(rows))

\* LIMIT ? OFFSET ?
LimitOffset(rows, limit, offset) ==
    SubSeq(rows, offset + 1,
           IF offset + limit < Len(rows) THEN offset + limit ELSE Len(rows))

\* SELECT * FROM trades WHERE user_id = ? AND status = 'closed'
\* ORDER BY exit_date DESC, entry_date DESC LIMIT ? OFFSET ?
SelectClosedTradesByUserId(d, userId, limit, offset) ==
    LimitOffset(OrderBy({t \in d.trades : t.user_id = userId /\ t.status = "closed"}),
                limit, offset)

\* SELECT user_id FROM sub_accounts WHERE id = ?
SelectSubAccountOwner(d, id) ==
    IF SubAccountExists(d, id)
    THEN [user_id |-> (CHOOSE a \in d.sub_accounts : a.id = id).user_id]
    ELSE NoRow

SelectTradesOfAnyUser(d, subAccountId, userId, limit, offset) ==
    LimitOffset(OrderBy({t \in d.trades : t.sub_account_id = <<subAccountId>>}),
                limit, offset)

\* SELECT * FROM trades WHERE sub_account_id = ? AND user_id = ?
\* ORDER BY exit_date DESC, entry_date DESC LIMIT ? OFFSET ?
SelectTradesBySubAccountId(d, subAccountId, userId, limit, offset) ==
    LimitOffset(OrderBy({t \in d.trades : /\ t.sub_account_id = <<subAccountId>>
                                          /\ t.user_id = userId}),
                limit, offset)

findClosedTradesByUserId(k, userId, limit, offset) ==
    Issue(k, [op |-> "findClosedTradesByUserId", userId |-> userId,
              limit |-> limit, offset |-> offset])

RunFindClosedTradesByUserId(k) ==
    LET q == clients[k].req
    IN /\ Executes(k, "findClosedTradesByUserId")
       /\ Settle(k, [op |-> "findClosedTradesByUserId", req |-> q,
                     settled |-> "resolved",
                     rows |-> SelectClosedTradesByUserId(db, q.userId, q.limit,
                                                         q.offset)])
       /\ Finish(Stmt("findClosedTradesByUserId", "client", k, FALSE), <<>>)
       /\ UNCHANGED <<db, journal, calls, clock, ops, closed, connVars>>

\* the call queues the look-up of the sub-account's owner
findTradesBySubAccountId(k, subAccountId, limit, offset) ==
    /\ clients[k].req = NoRequest
    /\ ops' = ops + 1
    /\ clients' = [clients EXCEPT ![k].req =
                      [op |-> "findTradesBySubAccountId",
                       subAccountId |-> subAccountId, limit |-> limit,
                       offset |-> offset, userId |-> 0]]
    /\ LET p == Submit(queue, running,
                       << Stmt("findSubAccount", "client", k, FALSE) >>)
       IN queue' = p.queue /\ running' = p.running
    /\ UNCHANGED <<db, journal, calls, clock, closed, connVars>>

\* the look-up's callback resolves [] or queues the query for the trades
RunFindSubAccount(k) ==
    LET s == Stmt("findSubAccount", "client", k, FALSE)
        q == clients[k].req
        subAccount == SelectSubAccountOwner(db, q.subAccountId)
    IN /\ s \in running
       /\ IF subAccount = NoRow
          THEN /\ Settle(k, [op |-> "findTradesBySubAccountId", req |-> q,
                             settled |-> "resolved", found |-> FALSE,
                             rows |-> <<>>])
               /\ Finish(s, <<>>)
          ELSE /\ clients' = [clients EXCEPT ![k].req.userId = subAccount.user_id]
               /\ Finish(s, << Stmt("findTradesBySubAccountId", "client", k,
                                    FALSE) >>)
       /\ UNCHANGED <<db, journal, calls, clock, ops, closed, connVars>>

RunFindTradesBySubAccountId(k) ==
    LET q == clients[k].req
    IN /\ Executes(k, "findTradesBySubAccountId")
       /\ Settle(k, [op |-> "findTradesBySubAccountId", req |-> q,
                     settled |-> "resolved", found |-> TRUE,
                     rows |-> SelectTradesBySubAccountId(db, q.subAccountId,
                                                         q.userId, q.limit,
                                                         q.offset)])
       /\ Finish(Stmt("findTradesBySubAccountId", "client", k, FALSE), <<>>)
       /\ UNCHANGED <<db, journal, calls, clock, ops, closed, connVars>>

\* =====================================================================
\* the tests' clean-up of the tables
\* =====================================================================

\* FOREIGN KEY (user_id) REFERENCES users(id) ON DELETE CASCADE, in
\* user_settings, sub_accounts and trades
DeleteUserRows(d, ids) ==
    LET gone == {a.id : a \in {a \in d.sub_accounts : a.user_id \in ids}}
    IN IF ForeignKeysOn
       THEN [d EXCEPT
               !.users = {u \in @ : u.id \notin ids},
               !.user_settings = {x \in @ : x.user_id \notin ids},
               !.sub_accounts = {a \in @ : a.user_id \notin ids},
               !.trades = SetNullSubAccount({t \in @ : t.user_id \notin ids}, gone)]
       ELSE [d EXCEPT !.users = {u \in @ : u.id \notin ids}]

\* DELETE FROM users;
DeleteFromUsers(d) == DeleteUserRows(d, {u.id : u \in d.users})

\* DELETE FROM sub_accounts;
DeleteFromSubAccounts(d) ==
    [d EXCEPT !.sub_accounts = {},
              !.trades = IF ForeignKeysOn
                         THEN SetNullSubAccount(@, {a.id : a \in d.sub_accounts})
                         ELSE @]

CleanStatements == << "DELETE FROM users", "DELETE FROM sub_accounts",
                      "DELETE FROM user_settings", "DELETE FROM trades", "VACUUM" >>

\* beforeEach: db.serialize queues the five statements
cleanTables(k) ==
    /\ clients[k].req = NoRequest
    /\ ops' = ops + 1
    /\ clients' = [clients EXCEPT ![k].req = [op |-> "cleanTables"]]
    /\ LET p == Submit(queue, running,
                       [i \in 1..Len(CleanStatements) |->
                           Stmt(CleanStatements[i], "client", k, TRUE)])
       IN queue' = p.queue /\ running' = p.running
    /\ UNCHANGED <<db, journal, calls, clock, closed, connVars>>

\* one statement of the clean-up executes; the first callback settles the
\* promise and the later resolve() calls are ignored
RunCleanStatement(k, sql) ==
    LET s == Stmt(sql, "client", k, TRUE)
    IN /\ s \in running
       /\ db' = IF sql = "DELETE FROM users" THEN DeleteFromUsers(db)
                ELSE IF sql = "DELETE FROM sub_accounts" THEN DeleteFromSubAccounts(db)
                ELSE IF sql = "DELETE FROM user_settings"
                THEN [db EXCEPT !.user_settings = {}]
                ELSE IF sql = "DELETE FROM trades" THEN [db EXCEPT !.trades = {}]
                ELSE db
       /\ IF sql = CleanStatements[1]
          THEN Settle(k, [op |-> "cleanTables", req |-> clients[k].req,
                          settled |-> "resolved"])
          ELSE clients' = clients
       /\ Finish(s, <<>>)
       /\ UNCHANGED <<journal, calls, clock, ops, closed, connVars>>

\* =====================================================================
\* the inputs callers pass
\* =====================================================================

UserIds == 1..(MaxCalls + SignupOps)
TradeIds == 1..2

\* createSampleTradeData of the trade tests, and variations of it
SampleTradeData ==
    [ userId |-> 1, subAccountId |-> <<>>, ticker |-> "TST", quantity |-> 10,
      entryPrice |-> "100.0", direction |-> "long", entryDate |-> "day1",
      exitDate |-> Undefined, exitPrice |-> Undefined,
      notes |-> "Initial trade notes", commission |-> "1.99", status |-> Undefined ]

TradeDataInputs ==
    { SampleTradeData,
      [SampleTradeData EXCEPT !.notes = Undefined, !.commission = Undefined],
      [SampleTradeData EXCEPT !.status = "closed", !.exitDate = "day2",
                              !.exitPrice = "110.0"] }

CloseDataInputs ==
    { [id |-> i, exitPrice |-> "115.0", exitDate |-> "day2",
       notes |-> Undefined, commission |-> Undefined] : i \in TradeIds }
    \cup
    { [id |-> i, exitPrice |-> "120.0", exitDate |-> "day3",
       notes |-> "Closed successfully", commission |-> "2.5"] : i \in TradeIds }
    \cup
    { [id |-> i, exitPrice |-> "120.0", exitDate |-> "day3",
       notes |-> Null, commission |-> Undefined] : i \in TradeIds }

UpdatesInputs ==
    { [notes |-> Undefined, commission |-> Undefined],
      [notes |-> "Updated notes", commission |-> Undefined],
      [notes |-> Undefined, commission |-> "5.0"],
      [notes |-> Null, commission |-> "5.0"] }

\* ids the tests use for rows that do not exist
NoSuchId == 9999

\* the default page size of the paged queries
DefaultLimit == 50

SubAccountNames == {"Main", "Algo"}

\* description and broker of an updateSubAccount call: given, or omitted
UpdateSubAccountInputs == { <<"Updated Desc", "Updated Broker">>,
                            <<Undefined, Undefined>> }

ClosedTradeData(userId, entryDate, exitDate) ==
    [SampleTradeData EXCEPT !.userId = userId, !.status = "closed",
                            !.entryDate = entryDate, !.exitDate = exitDate,
                            !.exitPrice = "110.0"]

\* trades for the ledger: open and closed ones of two users, and inputs the
\* schema's CHECK constraints refuse
LedgerTradeInputs ==
    { SampleTradeData,
      [SampleTradeData EXCEPT !.notes = Undefined, !.commission = Undefined],
      [SampleTradeData EXCEPT !.status = "closed"],
      [SampleTradeData EXCEPT !.status = ""],
      [SampleTradeData EXCEPT !.status = "pending"],
      [SampleTradeData EXCEPT !.quantity = 0],
      [SampleTradeData EXCEPT !.quantity = -10],
      [SampleTradeData EXCEPT !.direction = "sideways"],
      ClosedTradeData(1, "day1", "day2"),
      ClosedTradeData(1, "day1", "day3"),
      ClosedTradeData(1, "day2", "day3"),
      ClosedTradeData(2, "day1", "day2") }

\* trades in and out of sub-accounts, of their owner and of another user
AccountTradeInputs ==
    { [SampleTradeData EXCEPT !.userId = u, !.subAccountId = a] :
          u \in {1, 2}, a \in {<<>>, <<1>>} }
    \cup
    { [SampleTradeData EXCEPT !.subAccountId = <<2>>],
      [SampleTradeData EXCEPT !.userId = NoSuchId],
      [SampleTradeData EXCEPT !.subAccountId = <<NoSuchId>>] }

\* =====================================================================
\* database_test_env.js: the connection provider and the schema
\* =====================================================================

Connections == 1..MaxConnections
Procs == 1..MaxProcs

NoConnection == [state |-> "none", fk |-> FALSE, work |-> <<>>, created |-> {}]

\* a caller: the call in progress or the outcome of its last call; got and
\* fk record the handle a connectToDatabase handed out and whether foreign
\* keys were enabled on it at that moment; queued and left record how many
\* schema statements initDB queued and how many had not completed when its
\* promise resolved
IdleProc ==
    [op |-> "none", pc |-> "idle", settled |-> "none", got |-> 0, fk |-> FALSE,
     err |-> "", queued |-> 0, left |-> 0, failed |-> {}]

Work(op, who, name) == [op |-> op, who |-> who, name |-> name]

\* the statements initDB queues, in order; a table's callback rejects on
\* an error, an index statement has no callback
SchemaStatements ==
    << Work("table", 0, "users"),
       Work("index", 0, "idx_users_username"),
       Work("index", 0, "idx_users_email"),
       Work("table", 0, "user_settings"),
       Work("table", 0, "sub_accounts"),
       Work("index", 0, "idx_sub_accounts_user_id"),
       Work("table", 0, "trades"),
       Work("index", 0, "idx_trades_user_id"),
       Work("index", 0, "idx_trades_sub_account_id"),
       Work("index", 0, "idx_trades_ticker"),
       Work("index", 0, "idx_trades_entry_date"),
       Work("index", 0, "idx_trades_status") >>

ConnInit ==
    /\ handle = 0
    /\ made = 0
    /\ connections = [h \in Connections |-> NoConnection]
    /\ procs = [p \in Procs |-> IdleProc]
    /\ faults = 0
    /\ inits = 0

\* a promise settles once
SettleProc(pr, settled, err) ==
    IF pr.settled = "pending"
    THEN [pr EXCEPT !.settled = settled, !.err = err, !.pc = "idle"]
    ELSE pr

HandleIsOpen(h) == h # 0 /\ connections[h].state = "open"

\* if (db) return db;
HandleIsSet(h) == h # 0

\* db = new sqlite3.Database(DATABASE_PATH, callback)
NewDatabase(p, op) ==
    /\ made < MaxConnections
    /\ made' = made + 1
    /\ handle' = made + 1
    /\ connections' = [connections EXCEPT ![made + 1] =
                          [state |-> "opening", fk |-> FALSE,
                           work |-> << Work("open", p, "") >>, created |-> {}]]
    /\ procs' = [procs EXCEPT ![p] =
                    [IdleProc EXCEPT !.op = op, !.pc = "opening",
                                     !.settled = "pending"]]

\* connectToDatabase(): the handle itself when db is set, else a promise
\* for a new connection
connectToDatabase(p) ==
    /\ procs[p].pc = "idle"
    /\ ops' = ops + 1
    /\ IF HandleIsSet(handle)
       THEN /\ procs' = [procs EXCEPT ![p] =
                            [IdleProc EXCEPT !.op = "connectToDatabase",
                                             !.settled = "returned",
                                             !.got = handle,
                                             !.fk = connections[handle].fk]]
            /\ UNCHANGED <<handle, made, connections>>
       ELSE NewDatabase(p, "connectToDatabase")
    /\ UNCHANGED <<db, journal, queue, running, calls, clients, clock, closed,
                   faults, inits>>

\* the callback of new sqlite3.Database: on an error db = null and reject;
\* else PRAGMA foreign_keys = ON is run before anything that was queued
OpenCompletes(h, ok) ==
    /\ connections[h].state = "opening"
    /\ ok \/ faults < MaxFaults
    /\ faults' = IF ok THEN faults ELSE faults + 1
    /\ LET p == Head(connections[h].work).who
       IN IF ok
          THEN /\ connections' = [connections EXCEPT
                     ![h].state = "open",
                     ![h].work = << Work("pragma", p, "") >> \o Tail(@)]
               /\ UNCHANGED <<handle, procs>>
          ELSE /\ connections' = [connections EXCEPT ![h].state = "failed",
                                                     ![h].work = Tail(@)]
               /\ handle' = 0
               /\ procs' = [procs EXCEPT ![p] =
                               SettleProc(@, "rejected", "SQLITE_CANTOPEN")]
    /\ UNCHANGED <<db, journal, queue, running, calls, clients, clock, ops,
                   closed, made, inits>>

\* the callback of db.run("PRAGMA foreign_keys = ON;"): reject(fkErr) on an
\* error, then resolve(db) in either case; initDB goes on with the handle
PragmaCompletes(h, ok) ==
    /\ connections[h].state = "open"
    /\ connections[h].work # <<>>
    /\ Head(connections[h].work).op = "pragma"
    /\ ok \/ faults < MaxFaults
    /\ faults' = IF ok THEN faults ELSE faults + 1
    /\ connections' = [connections EXCEPT ![h].fk = ok, ![h].work = Tail(@)]
    /\ LET p == Head(connections[h].work).who
       IN procs' = [procs EXCEPT ![p] =
             IF ~ok THEN SettleProc(@, "rejected", "SQLITE_ERROR")
             ELSE IF @.op = "initDB" /\ handle # 0
             THEN [@ EXCEPT !.pc = "connected", !.got = handle, !.fk = ok]
             ELSE [SettleProc(@, "resolved", "") EXCEPT !.got = handle,
                                                        !.fk = ok]]
    /\ UNCHANGED <<db, journal, queue, running, calls, clients, clock, ops,
                   closed, handle, made, inits>>

\* initDB(): const currentDb = await connectToDatabase()
initDB(p) ==
    /\ procs[p].pc = "idle"
    /\ inits < MaxInits
    /\ inits' = inits + 1
    /\ ops' = ops + 1
    /\ IF HandleIsSet(handle)
       THEN /\ procs' = [procs EXCEPT ![p] =
                            [IdleProc EXCEPT !.op = "initDB", !.pc = "connected",
                                             !.settled = "pending",
                                             !.got = handle,
                                             !.fk = connections[handle].fk]]
            /\ UNCHANGED <<handle, made, connections>>
       ELSE NewDatabase(p, "initDB")
    /\ UNCHANGED <<db, journal, queue, running, calls, clients, clock, closed,
                   faults>>

\* currentDb.serialize(() => { currentDb.run(...); ...; resolve(); })
InitDbSerialize(p) ==
    /\ procs[p].op = "initDB"
    /\ procs[p].pc = "connected"
    /\ LET h == procs[p].got
           stmts == [i \in 1..Len(SchemaStatements) |->
                        [SchemaStatements[i] EXCEPT !.who = p]]
       IN /\ connections' = [connections EXCEPT ![h].work = @ \o stmts]
          /\ procs' = [procs EXCEPT ![p] =
                [SettleProc(@, "resolved", "") EXCEPT
                    !.queued = Len(stmts),
                    !.left = Len(SelectSeq(connections[h].work \o stmts,
                                           LAMBDA w : w.who = p /\ w.op \in {"table", "index"}))]]
    /\ UNCHANGED <<db, journal, queue, running, calls, clients, clock, ops,
                   closed, handle, made, faults, inits>>

\* one schema statement completes; a table's callback rejects on an error
SchemaStatementCompletes(h, ok) ==
    /\ connections[h].state \in {"open", "closed"}
    /\ connections[h].work # <<>>
    /\ Head(connections[h].work).op \in {"table", "index"}
    /\ connections[h].state = "closed" => ~ok
    /\ ok \/ connections[h].state = "closed" \/ faults < MaxFaults
    /\ faults' = IF ok \/ connections[h].state = "closed" THEN faults
                 ELSE faults + 1
    /\ LET w == Head(connections[h].work)
       IN /\ connections' = [connections EXCEPT
                ![h].work = Tail(@),
                ![h].created = IF ok THEN @ \cup {w.name} ELSE @]
          /\ procs' = [procs EXCEPT ![w.who] =
                IF ok \/ @.op # "initDB" THEN @
                ELSE IF w.op = "table"
                THEN [SettleProc(@, "rejected", "table creation failed")
                         EXCEPT !.failed = @ \cup {w.name}]
                ELSE [@ EXCEPT !.failed = @ \cup {w.name}]]
    /\ UNCHANGED <<db, journal, queue, running, calls, clients, clock, ops,
                   closed, handle, made, inits>>

\* closeDb(): db.close(callback) when db is set, else resolve()
closeDb(p) ==
    /\ procs[p].pc = "idle"
    /\ ops' = ops + 1
    /\ IF HandleIsSet(handle)
       THEN /\ connections' = [connections EXCEPT
                  ![handle].work = @ \o << Work("close", p, "") >>]
            /\ procs' = [procs EXCEPT ![p] =
                  [IdleProc EXCEPT !.op = "closeDb", !.pc = "closing",
                                   !.settled = "pending", !.got = handle]]
       ELSE /\ procs' = [procs EXCEPT ![p] =
                  [IdleProc EXCEPT !.op = "closeDb", !.settled = "resolved"]]
            /\ UNCHANGED connections
    /\ UNCHANGED <<db, journal, queue, running, calls, clients, clock, closed,
                   handle, made, faults, inits>>

\* the callback of db.close: db = null and resolve(); on a Database that
\* is already closed the callback gets SQLITE_MISUSE and rejects
CloseCompletes(h) ==
    /\ connections[h].state \in {"open", "closed"}
    /\ connections[h].work # <<>>
    /\ Head(connections[h].work).op = "close"
    /\ LET p == Head(connections[h].work).who
       IN IF connections[h].state = "open"
          THEN /\ connections' = [connections EXCEPT ![h].state = "closed",
                                                     ![h].work = Tail(@)]
               /\ handle' = 0
               /\ procs' = [procs EXCEPT ![p] = SettleProc(@, "resolved", "")]
          ELSE /\ connections' = [connections EXCEPT ![h].work = Tail(@)]
               /\ procs' = [procs EXCEPT ![p] =
                     SettleProc(@, "rejected",
                                "SQLITE_MISUSE: Database handle is closed")]
               /\ UNCHANGED handle
    /\ UNCHANGED <<db, journal, queue, running, calls, clients, clock, ops,
                   closed, made, faults, inits>>

\* =====================================================================
\* the system
\* =====================================================================

Init ==
    /\ db = EmptyDb
    /\ journal = NoJournal
    /\ queue = <<>>
    /\ running = {}
    /\ calls = [c \in Calls |-> IdleCall]
    /\ clients = [k \in Clients |-> IdleClient]
    /\ clock = 0
    /\ ops = 0
    /\ closed = {}
    /\ ConnInit

\* a store that already holds one user, created with createUser before
SeededInit ==
    /\ db = InsertUser(EmptyDb, "alice", "a@x.com", "hashed_pw", 0, 0).db
    /\ journal = NoJournal
    /\ queue = <<>>
    /\ running = {}
    /\ calls = [c \in Calls |-> IdleCall]
    /\ clients = [k \in Clients |-> IdleClient]
    /\ clock = 0
    /\ ops = 0
    /\ closed = {}
    /\ ConnInit

\* sign-ups: concurrent createUserWithSettings calls and createUser
Next ==
    \/ \E c \in Calls, u \in Usernames, e \in Emails, h \in PasswordHashes :
          createUserWithSettings(c, u, e, h, SignupSettings)
    \/ \E c \in Calls : RunBegin(c)
    \/ \E c \in Calls : RunUserInsert(c)
    \/ \E c \in Calls : RunSettingsInsert(c)
    \/ \E c \in Calls : RunCommit(c)
    \/ \E c \in Calls : RunRollback(c)
    \/ \E k \in Clients, u \in Usernames, e \in Emails, h \in PasswordHashes :
          ops < SignupOps /\ createUser(k, u, e, h)
    \/ \E k \in Clients : RunCreateUser(k)

Spec == Init /\ [][Next]_vars

\* a reader looking rows up while one createUserWithSettings call runs
ReadNext ==
    \/ \E u \in Usernames, e \in Emails, h \in PasswordHashes,
          ds \in DefaultSettingsInputs : createUserWithSettings(1, u, e, h, ds)
    \/ RunBegin(1)
    \/ RunUserInsert(1)
    \/ RunSettingsInsert(1)
    \/ RunCommit(1)
    \/ RunRollback(1)
    \/ \E k \in Clients, id \in UserIds : ops < ReadOps /\ findUserById(k, id)
    \/ \E k \in Clients : RunFindUserById(k)
    \/ \E k \in Clients, e \in Emails : ops < ReadOps /\ findUserByEmail(k, e)
    \/ \E k \in Clients : RunFindUserByEmail(k)
    \/ \E k \in Clients, id \in UserIds : ops < ReadOps /\ findSettingsByUserId(k, id)
    \/ \E k \in Clients : RunFindSettingsByUserId(k)

ReadSpec == SeededInit /\ [][ReadNext]_vars

\* the trade repository, beside one createUserWithSettings call
TradeNext ==
    \/ \E u \in Usernames :
          createUserWithSettings(1, u, "b@x.com", "hashed_pw", SignupSettings)
    \/ RunBegin(1)
    \/ RunUserInsert(1)
    \/ RunSettingsInsert(1)
    \/ RunCommit(1)
    \/ RunRollback(1)
    \/ \E k \in Clients, td \in TradeDataInputs : ops < TradeOps /\ createTrade(k, td)
    \/ \E k \in Clients : RunCreateTrade(k)
    \/ \E k \in Clients, cd \in CloseDataInputs : ops < TradeOps /\ closeTrade(k, cd)
    \/ \E k \in Clients : RunCloseTrade(k)
    \/ \E k \in Clients, id \in TradeIds, up \in UpdatesInputs :
          ops < TradeOps /\ updateTradeDetails(k, id, up)
    \/ \E k \in Clients : RunUpdateTradeDetails(k)
    \/ \E k \in Clients, id \in TradeIds : ops < TradeOps /\ deleteTrade(k, id)
    \/ \E k \in Clients : RunDeleteTrade(k)
    \/ Tick

TradeSpec == SeededInit /\ [][TradeNext]_vars

\* a store that holds the two users the trade tests create first
LedgerInit ==
    /\ db = InsertUser(InsertUser(EmptyDb, "alice", "a@x.com", "hashed_pw", 0, 0).db,
                       "bob", "b@x.com", "hashed_pw", 0, 0).db
    /\ journal = NoJournal
    /\ queue = <<>>
    /\ running = {}
    /\ calls = [c \in Calls |-> IdleCall]
    /\ clients = [k \in Clients |-> IdleClient]
    /\ clock = 0
    /\ ops = 0
    /\ closed = {}
    /\ ConnInit

\* two callers close the same open trade while one createUserWithSettings
\* call runs on the shared handle
Closers == {1, 2}

RaceCloseInputs == {cd \in CloseDataInputs : cd.id = 1}

RaceInit ==
    /\ db = InsertTrade(InsertUser(EmptyDb, "alice", "a@x.com", "hashed_pw", 0, 0).db,
                        [SampleTradeData EXCEPT !.status = "open"], 0).db
    /\ journal = NoJournal
    /\ queue = <<>>
    /\ running = {}
    /\ calls = [c \in Calls |-> IdleCall]
    /\ clients = [k \in Closers |-> IdleClient]
    /\ clock = 0
    /\ ops = 0
    /\ closed = {}
    /\ ConnInit

\* the second closeTrade is called while the first one is still pending
RaceNext ==
    \/ \E u \in Usernames :
          createUserWithSettings(1, u, "b@x.com", "hashed_pw", SignupSettings)
    \/ RunBegin(1)
    \/ RunUserInsert(1)
    \/ RunSettingsInsert(1)
    \/ RunCommit(1)
    \/ RunRollback(1)
    \/ \E cd \in RaceCloseInputs :
          /\ \A k \in Closers : clients[k].res = NoResult
          /\ clients[2].req = NoRequest
          /\ closeTrade(1, cd)
    \/ \E cd \in RaceCloseInputs :
          /\ clients[1].req # NoRequest
          /\ clients[2].res = NoResult
          /\ closeTrade(2, cd)
    \/ \E k \in Closers : RunCloseTrade(k)
    \/ Tick

RaceSpec == RaceInit /\ [][RaceNext]_vars

\* the ledger: trades are created and closed, closed trades are paged through
LedgerNext ==
    \/ \E k \in Clients, td \in LedgerTradeInputs :
          ops < LedgerOps /\ createTrade(k, td)
    \/ \E k \in Clients : RunCreateTrade(k)
    \/ \E k \in Clients, u \in {1, 2}, limit \in 1..MaxLimit, page \in {0, 1} :
          ops < LedgerOps /\ findClosedTradesByUserId(k, u, limit, page * limit)
    \/ \E k \in Clients : RunFindClosedTradesByUserId(k)

LedgerSpec == LedgerInit /\ [][LedgerNext]_vars

\* a store that holds a user who signed up with createUserWithSettings and a
\* user created with createUser
AccountInit ==
    /\ db = InsertUser(
                InsertSettings(
                    InsertUser(EmptyDb, "alice", "a@x.com", "hashed_pw", 0, 1).db,
                    1, OrDefault(SignupSettings.default_currency, "USD"),
                    OrDefault(SignupSettings.theme, "light"), 0, 1).db,
                "bob", "b@x.com", "hashed_pw", 0, 0).db
    /\ journal = NoJournal
    /\ queue = <<>>
    /\ running = {}
    /\ calls = [c \in Calls |->
                   IF c = 1
                   THEN [IdleCall EXCEPT !.pc = "done", !.username = "alice",
                                         !.email = "a@x.com",
                                         !.passwordHash = "hashed_pw",
                                         !.defaultSettings = SignupSettings,
                                         !.userId = 1, !.promise = "resolved",
                                         !.value = 1]
                   ELSE IdleCall]
    /\ clients = [k \in Clients |-> IdleClient]
    /\ clock = 0
    /\ ops = 0
    /\ closed = {}
    /\ ConnInit

\* sub-accounts, the trades that refer to them, and the clean-up of the tables
AccountNext ==
    \/ \E k \in Clients, u \in {1, 2}, name \in SubAccountNames :
          ops < AccountOps /\ createSubAccount(k, u, name, Null)
    \/ \E k \in Clients : RunCreateSubAccount(k)
    \/ \E k \in Clients, id \in {1, 2}, name \in SubAccountNames,
          rest \in UpdateSubAccountInputs :
          ops < AccountOps /\ updateSubAccount(k, id, name, rest[1], rest[2])
    \/ \E k \in Clients : RunUpdateSubAccount(k)
    \/ \E k \in Clients, id \in {1, 2} : ops < AccountOps /\ deleteSubAccount(k, id)
    \/ \E k \in Clients : RunDeleteSubAccount(k)
    \/ \E k \in Clients, td \in AccountTradeInputs :
          ops < AccountOps /\ createTrade(k, td)
    \/ \E k \in Clients : RunCreateTrade(k)
    \/ \E k \in Clients, id \in {1, 2}, limit \in {1, DefaultLimit} :
          ops < AccountOps /\ findTradesBySubAccountId(k, id, limit, 0)
    \/ \E k \in Clients : RunFindSubAccount(k)
    \/ \E k \in Clients : RunFindTradesBySubAccountId(k)
    \/ \E k \in Clients : ops < AccountOps /\ cleanTables(k)
    \/ \E k \in Clients, i \in 1..Len(CleanStatements) :
          RunCleanStatement(k, CleanStatements[i])
    \/ Tick

AccountSpec == AccountInit /\ [][AccountNext]_vars

\* createUser and the look-ups, on the store of either schema module
UserInit ==
    /\ \E s \in Schemas :
          db = InsertUser([EmptyDb EXCEPT !.schema = s],
                          "alice", "a@x.com", "hashed_pw", 0, 0).db
    /\ journal = NoJournal
    /\ queue = <<>>
    /\ running = {}
    /\ calls = [c \in Calls |-> IdleCall]
    /\ clients = [k \in Clients |-> IdleClient]
    /\ clock = 0
    /\ ops = 0
    /\ closed = {}
    /\ ConnInit

UserNext ==
    \/ \E k \in Clients, u \in Usernames, e \in Emails, h \in PasswordHashes :
          ops < UserOps /\ createUser(k, u, e, h)
    \/ \E k \in Clients : RunCreateUser(k)
    \/ \E k \in Clients, id \in UserIds : ops < UserOps /\ findUserById(k, id)
    \/ \E k \in Clients : RunFindUserById(k)
    \/ \E k \in Clients, e \in Emails : ops < UserOps /\ findUserByEmail(k, e)
    \/ \E k \in Clients : RunFindUserByEmail(k)

UserSpec == UserInit /\ [][UserNext]_vars

\* the connection provider: callers connect, initialise the schema and close
ConnNext ==
    \/ \E p \in Procs : ops < ConnOps /\ connectToDatabase(p)
    \/ \E h \in Connections, ok \in BOOLEAN : OpenCompletes(h, ok)
    \/ \E h \in Connections, ok \in BOOLEAN : PragmaCompletes(h, ok)
    \/ \E p \in Procs : ops < ConnOps /\ initDB(p)
    \/ \E p \in Procs : InitDbSerialize(p)
    \/ \E h \in Connections, ok \in BOOLEAN : SchemaStatementCompletes(h, ok)
    \/ \E p \in Procs : ops < ConnOps /\ closeDb(p)
    \/ \E h \in Connections : CloseCompletes(h)

ConnSpec == Init /\ [][ConnNext]_vars

\* =====================================================================
\* the properties
\* =====================================================================

\* C1: once a createUserWithSettings call has rejected and all its
\* statements have run, no user row and no settings row written by that
\* call exists, and every row that existed before the call still exists
C1_RejectedCallLeavesNothing ==
    \A c \in Calls :
        (calls[c].pc = "done" /\ calls[c].promise = "rejected") =>
            /\ \A u \in db.users : u.by # c
            /\ \A s \in db.user_settings : s.by # c
            /\ calls[c].before.users \subseteq db.users
            /\ calls[c].before.user_settings \subseteq db.user_settings

C3_ExactlyOneSettingsRow ==
    \A u \in db.users :
        Cardinality({s \in db.user_settings : s.user_id = u.id}) = 1

\* C3, amended: every user row has at most one settings row, every settings
\* row belongs to an existing user row, and settings rows are written by
\* createUserWithSettings only
C3_AtMostOneSettingsRow ==
    /\ \A u \in db.users :
          Cardinality({s \in db.user_settings : s.user_id = u.id}) <= 1
    /\ \A s \in db.user_settings : UserExists(db, s.user_id) /\ s.by \in Calls

\* a user created by createUser has no settings, another user has its row
C3_Witness ==
    /\ \E u \in db.users :
          u.by = 0 /\ \A s \in db.user_settings : s.user_id # u.id
    /\ \E u \in db.users :
          u.by \in Calls /\ \E s \in db.user_settings : s.user_id = u.id

\* C4: a call whose BEGIN TRANSACTION failed has rejected, and once its
\* statements have run and no transaction is open, no user row and no
\* settings row inserted by it exists
C4_FailedBeginInsertsNothing ==
    \A c \in Calls :
        calls[c].beginErr # NoError =>
            /\ calls[c].promise = "rejected"
            /\ (calls[c].pc = "done" /\ ~journal.active) =>
                  /\ \A u \in db.users : u.by # c
                  /\ \A s \in db.user_settings : s.by # c

\* C5: a call that failed at the user insert, the settings insert or the
\* commit is never rejected with another error than that step's, is not
\* rejected before its ROLLBACK has run, and is rejected once it has
C5_RejectsWithStepErrorAfterRollback ==
    \A c \in Calls :
        calls[c].failedAt # "" =>
            /\ calls[c].promise = "rejected" =>
                  calls[c].reason = calls[c].stepErr /\ calls[c].rolledBack
            /\ calls[c].rolledBack => calls[c].promise = "rejected"

\* C6: when a call has resolved with an id, a user row with that id and the
\* call's username, email and password hash exists, and so does a settings
\* row for that id holding the supplied values, 'USD' and 'light' when omitted
C6_ResolvedIdHasBothRows ==
    \A c \in Calls :
        calls[c].promise = "resolved" =>
            /\ \E u \in db.users :
                  /\ u.id = calls[c].value
                  /\ u.username = calls[c].username
                  /\ u.email = calls[c].email
                  /\ u.password_hash = calls[c].passwordHash
            /\ \E s \in db.user_settings :
                  /\ s.user_id = calls[c].value
                  /\ s.default_currency =
                        IF calls[c].defaultSettings.default_currency = Undefined
                        THEN "USD" ELSE calls[c].defaultSettings.default_currency
                  /\ s.theme =
                        IF calls[c].defaultSettings.theme = Undefined
                        THEN "light" ELSE calls[c].defaultSettings.theme

\* C7: closeTrade on an existing open trade resolves true, sets the trade's
\* status to closed, its exit_price and exit_date to the supplied values and
\* its updated_at to the time of the call, and changes no other trade row
C7_ClosesOpenTrade ==
    [][ \A k \in Clients :
          ( /\ clients[k].req.op = "closeTrade"
            /\ clients'[k].req = NoRequest
            /\ \E t \in db.trades :
                  t.id = clients[k].req.closeData.id /\ t.status = "open" ) =>
              LET q == clients[k].req
              IN /\ clients'[k].res.settled = "resolved"
                 /\ clients'[k].res.flag
                 /\ \E t \in db.trades, n \in db'.trades :
                       /\ t.id = q.closeData.id
                       /\ n.id = q.closeData.id
                       /\ n.status = "closed"
                       /\ n.exit_price = q.closeData.exitPrice
                       /\ n.exit_date = q.closeData.exitDate
                       /\ n.updated_at = q.now
                       /\ db'.trades \ {n} = db.trades \ {t} ]_vars

\* closeTrade has resolved true for a trade created earlier, beside another row
C7_Witness ==
    \E k \in Clients :
        /\ clients[k].res.op = "closeTrade"
        /\ clients[k].res.flag
        /\ \E t \in db.trades :
              /\ t.id = clients[k].res.req.closeData.id
              /\ t.status = "closed"
              /\ t.updated_at = clients[k].res.req.now
              /\ t.created_at # t.updated_at
        /\ Cardinality(db.trades) >= 2

\* C8: closeTrade on an id that names no trade, or a trade already closed,
\* resolves false, does not reject, and leaves every trade row as it was
C8_ClosesNothingElse ==
    [][ \A k \in Clients :
          ( /\ clients[k].req.op = "closeTrade"
            /\ clients'[k].req = NoRequest
            /\ ~ \E t \in db.trades :
                  t.id = clients[k].req.closeData.id /\ t.status = "open" ) =>
              /\ clients'[k].res.settled = "resolved"
              /\ ~ clients'[k].res.flag
              /\ db'.trades = db.trades ]_vars

\* closeTrade resolved true, then false for the same, now closed, trade
C8_Witness ==
    \E k \in Clients :
        /\ clients[k].prev.op = "closeTrade"
        /\ clients[k].prev.flag
        /\ clients[k].res.op = "closeTrade"
        /\ ~ clients[k].res.flag
        /\ clients[k].res.req.closeData.id = clients[k].prev.req.closeData.id
        /\ \E t \in db.trades :
              t.id = clients[k].res.req.closeData.id /\ t.status = "closed"

\* C9: a closeTrade that resolves true stores the supplied notes when the
\* caller supplied notes and keeps the stored notes when it did not, and
\* likewise for commission
C9_OverwritesIffSupplied ==
    [][ \A k \in Clients :
          ( /\ clients[k].req.op = "closeTrade"
            /\ clients'[k].req = NoRequest
            /\ clients'[k].res.flag ) =>
              LET cd == clients[k].req.closeData
              IN \E t \in db.trades, n \in db'.trades :
                    /\ t.id = cd.id
                    /\ n.id = cd.id
                    /\ n.notes = IF cd.notes = Undefined THEN t.notes ELSE cd.notes
                    /\ n.commission =
                          IF cd.commission = Undefined THEN t.commission
                          ELSE cd.commission ]_vars

\* C10: no step turns a closed trade into an open one, and closeTrade does
\* not resolve true for a trade id it has resolved true for before
C10_ClosedStaysClosed ==
    [][ /\ \A t \in db.trades, n \in db'.trades :
              (t.id = n.id /\ t.status = "closed") => n.status = "closed"
        /\ \A k \in Clients :
              ( /\ clients[k].req.op = "closeTrade"
                /\ clients'[k].req = NoRequest
                /\ clients'[k].res.flag ) =>
                  clients[k].req.closeData.id \notin closed ]_vars

\* C11: updateTradeDetails with neither notes nor commission supplied
\* resolves false in the step of the call, queues no statement and leaves the
\* store as it was, whether or not the id names a trade; no updateTradeDetails
\* statement without a field to set is ever in flight
C11_NothingToUpdate ==
    [][ \A k \in Clients :
          /\ ( /\ clients'[k].res.op = "updateTradeDetails"
               /\ clients'[k].res.req.updates.notes = Undefined
               /\ clients'[k].res.req.updates.commission = Undefined
               /\ clients'[k].req = NoRequest
               /\ clients'[k] # clients[k] ) =>
                 /\ clients[k].req = NoRequest
                 /\ clients'[k].res.settled = "resolved"
                 /\ ~ clients'[k].res.flag
                 /\ db' = db
                 /\ queue' = queue /\ running' = running
          /\ clients'[k].req.op = "updateTradeDetails" =>
                ~ ( /\ clients'[k].req.updates.notes = Undefined
                    /\ clients'[k].req.updates.commission = Undefined ) ]_vars

\* updateTradeDetails(id, {}) has resolved false for the id of a stored trade
C11_Witness ==
    \E k \in Clients :
        /\ clients[k].res.op = "updateTradeDetails"
        /\ clients[k].res.req.updates.notes = Undefined
        /\ clients[k].res.req.updates.commission = Undefined
        /\ ~ clients[k].res.flag
        /\ \E t \in db.trades : t.id = clients[k].res.req.id

\* C12: an updateTradeDetails statement with a field to set, on the id of a
\* stored trade of either status, resolves true, sets the supplied fields and
\* updated_at and leaves every other field and every other trade as it was; on
\* an id that names no trade it resolves false and changes no trade
C12_UpdatesSuppliedFields ==
    [][ \A k \in Clients :
          ( /\ clients[k].req.op = "updateTradeDetails"
            /\ clients'[k].req = NoRequest ) =>
              LET q == clients[k].req
              IN IF \E t \in db.trades : t.id = q.id
                 THEN /\ clients'[k].res.flag
                      /\ \E t \in db.trades :
                            /\ t.id = q.id
                            /\ db'.trades =
                                 (db.trades \ {t}) \cup
                                 { [t EXCEPT
                                      !.updated_at = q.now,
                                      !.notes = IF q.updates.notes = Undefined
                                                THEN @ ELSE q.updates.notes,
                                      !.commission =
                                          IF q.updates.commission = Undefined
                                          THEN @ ELSE q.updates.commission] }
                 ELSE /\ ~ clients'[k].res.flag
                      /\ db'.trades = db.trades ]_vars

\* updateTradeDetails has resolved true for a closed trade, at a later time
\* than the trade was created
C12_Witness ==
    \E k \in Clients :
        /\ clients[k].res.op = "updateTradeDetails"
        /\ clients[k].res.flag
        /\ \E t \in db.trades :
              /\ t.id = clients[k].res.req.id
              /\ t.status = "closed"
              /\ t.updated_at = clients[k].res.req.now
              /\ t.created_at # t.updated_at

\* C13 as stated: a trade created from an input that gives no status is
\* stored open, one created from an input that gives a status is stored with
\* that status, and one created without exit data has null exit_price and
\* exit_date
C13_StoresGivenStatus ==
    [][ \A k \in Clients :
          ( /\ clients[k].req.op = "createTrade"
            /\ clients'[k].req = NoRequest
            /\ clients'[k].res.settled = "resolved" ) =>
              LET td == clients[k].req.tradeData
              IN \E n \in db'.trades \ db.trades :
                    /\ n.id = clients'[k].res.id
                    /\ n.status = IF td.status = Undefined THEN "open" ELSE td.status
                    /\ (td.exitPrice = Undefined /\ td.exitDate = Undefined) =>
                          (n.exit_price = Null /\ n.exit_date = Null) ]_vars

\* C13, amended: a trade created from an input whose status is absent or
\* falsy (undefined, null, the empty string) is stored open, one created
\* from any other status is stored with that status, and one created without
\* exit data has null exit_price and exit_date
C13_StoresStatusOrOpen ==
    [][ \A k \in Clients :
          ( /\ clients[k].req.op = "createTrade"
            /\ clients'[k].req = NoRequest
            /\ clients'[k].res.settled = "resolved" ) =>
              LET td == clients[k].req.tradeData
              IN \E n \in db'.trades \ db.trades :
                    /\ n.id = clients'[k].res.id
                    /\ n.status = IF td.status \in {Undefined, Null, ""}
                                  THEN "open" ELSE td.status
                    /\ (td.exitPrice = Undefined /\ td.exitDate = Undefined) =>
                          (n.exit_price = Null /\ n.exit_date = Null) ]_vars

\* a trade given with the empty status is stored open, without exit data,
\* beside a trade given as closed and stored closed
C13_Witness ==
    \E k \in Clients :
        /\ clients[k].res.op = "createTrade"
        /\ clients[k].res.settled = "resolved"
        /\ clients[k].res.req.tradeData.status = ""
        /\ \E t \in db.trades :
              t.id = clients[k].res.id /\ t.status = "open" /\ t.exit_date = Null
        /\ clients[k].prev.op = "createTrade"
        /\ clients[k].prev.req.tradeData.status = "closed"
        /\ \E t \in db.trades : t.id = clients[k].prev.id /\ t.status = "closed"

\* C14: a trade created from an input without commission is stored with
\* commission 0.0
C14_CommissionDefault ==
    [][ \A k \in Clients :
          ( /\ clients[k].req.op = "createTrade"
            /\ clients'[k].req = NoRequest
            /\ clients'[k].res.settled = "resolved"
            /\ clients[k].req.tradeData.commission = Undefined ) =>
              \E n \in db'.trades \ db.trades :
                  n.id = clients'[k].res.id /\ n.commission = "0.0" ]_vars

\* C15 as stated: every stored trade has quantity > 0, a direction of the
\* enum and a status of the enum, and a createTrade whose input has a
\* quantity <= 0, a direction outside the enum or a status outside the enum
\* rejects with a CHECK-constraint error and inserts no row
C15_ChecksRefuseInput ==
    [][ /\ \A t \in db'.trades : /\ t.quantity > 0
                                 /\ t.direction \in {"long", "short"}
                                 /\ t.status \in {"open", "closed"}
        /\ \A k \in Clients :
              ( /\ clients[k].req.op = "createTrade"
                /\ clients'[k].req = NoRequest
                /\ LET td == clients[k].req.tradeData
                   IN \/ td.quantity <= 0
                      \/ td.direction \notin {"long", "short"}
                      \/ td.status \notin {Undefined, "open", "closed"} ) =>
                  /\ clients'[k].res.settled = "rejected"
                  /\ clients'[k].res.err = "SQLITE_CONSTRAINT: CHECK constraint failed"
                  /\ db' = db ]_vars

\* C15, amended: every stored trade has quantity > 0, a direction of the
\* enum and a status of the enum, and a createTrade whose input has a
\* quantity <= 0, a direction outside the enum or a status that is neither
\* falsy nor in the enum rejects with a CHECK-constraint error and inserts no
\* row (a falsy status is replaced by 'open')
C15_ChecksRefuseTruthyInput ==
    [][ /\ \A t \in db'.trades : /\ t.quantity > 0
                                 /\ t.direction \in {"long", "short"}
                                 /\ t.status \in {"open", "closed"}
        /\ \A k \in Clients :
              ( /\ clients[k].req.op = "createTrade"
                /\ clients'[k].req = NoRequest
                /\ LET td == clients[k].req.tradeData
                   IN \/ td.quantity <= 0
                      \/ td.direction \notin {"long", "short"}
                      \/ td.status \notin {Undefined, Null, "", "open", "closed"} ) =>
                  /\ clients'[k].res.settled = "rejected"
                  /\ clients'[k].res.err = "SQLITE_CONSTRAINT: CHECK constraint failed"
                  /\ db' = db ]_vars

\* a createTrade with quantity -10 was rejected by a CHECK, trades are stored
C15_Witness ==
    \E k \in Clients :
        /\ clients[k].res.op = "createTrade"
        /\ clients[k].res.settled = "rejected"
        /\ clients[k].res.req.tradeData.quantity < 0
        /\ clients[k].res.err = "SQLITE_CONSTRAINT: CHECK constraint failed"
        /\ db.trades # {}

\* C16: every stored trade refers to a stored user and to no sub-account or
\* a stored one; a createTrade whose userId or subAccountId names no row
\* rejects with a FOREIGN KEY error and inserts no row; and a step that
\* deletes a user leaves no settings, sub-account or trade of that user
C16_ReferencesHold ==
    [][ /\ \A t \in db'.trades :
              /\ UserExists(db', t.user_id)
              /\ t.sub_account_id = <<>> \/ SubAccountExists(db', t.sub_account_id[1])
        /\ \A k \in Clients :
              ( /\ clients[k].req.op = "createTrade"
                /\ clients'[k].req = NoRequest
                /\ LET td == clients[k].req.tradeData
                   IN \/ ~ UserExists(db, td.userId)
                      \/ /\ td.subAccountId # <<>>
                         /\ ~ SubAccountExists(db, td.subAccountId[1]) ) =>
                  /\ clients'[k].res.settled = "rejected"
                  /\ clients'[k].res.err =
                        "SQLITE_CONSTRAINT: FOREIGN KEY constraint failed"
                  /\ db' = db
        /\ \A u \in db.users :
              ~ UserExists(db', u.id) =>
                  /\ \A x \in db'.user_settings : x.user_id # u.id
                  /\ \A a \in db'.sub_accounts : a.user_id # u.id
                  /\ \A t \in db'.trades : t.user_id # u.id ]_vars

\* DELETE FROM users has run after a trade was created: the users, the
\* settings and the trade are gone before DELETE FROM trades has run
C16_Witness ==
    \E k \in Clients :
        /\ clients[k].res.op = "cleanTables"
        /\ clients[k].prev.op = "createTrade"
        /\ clients[k].prev.settled = "resolved"
        /\ db.users = {} /\ db.user_settings = {} /\ db.trades = {}
        /\ \E i \in 1..Len(queue) : queue[i].op = "DELETE FROM trades"

\* C17: deleteSubAccount on a sub-account that trades refer to resolves
\* true, removes that sub-account only, and leaves every trade stored: those
\* that referred to it with sub_account_id null and nothing else changed,
\* the others as they were
C17_DeleteSetsNull ==
    [][ \A k \in Clients :
          ( /\ clients[k].req.op = "deleteSubAccount"
            /\ clients'[k].req = NoRequest
            /\ SubAccountExists(db, clients[k].req.id)
            /\ \E t \in db.trades : t.sub_account_id = <<clients[k].req.id>> ) =>
              LET id == clients[k].req.id
              IN /\ clients'[k].res.settled = "resolved"
                 /\ clients'[k].res.flag
                 /\ db'.sub_accounts = {a \in db.sub_accounts : a.id # id}
                 /\ db'.trades =
                       { IF t.sub_account_id = <<id>>
                         THEN [t EXCEPT !.sub_account_id = <<>>] ELSE t :
                         t \in db.trades }
                 /\ Cardinality(db'.trades) = Cardinality(db.trades) ]_vars

\* deleteSubAccount resolved true for the sub-account of the trade created
\* just before, and that trade is stored without a sub-account
C17_Witness ==
    \E k \in Clients :
        /\ clients[k].res.op = "deleteSubAccount"
        /\ clients[k].res.flag
        /\ clients[k].prev.op = "createTrade"
        /\ clients[k].prev.settled = "resolved"
        /\ clients[k].prev.req.tradeData.subAccountId = <<clients[k].res.req.id>>
        /\ \E t \in db.trades : t.id = clients[k].prev.id /\ t.sub_account_id = <<>>

C19_ReturnsAllOfSubAccount ==
    [][ \A k \in Clients :
          ( /\ clients[k].req.op = "findTradesBySubAccountId"
            /\ clients'[k].req = NoRequest ) =>
              LET q == clients[k].req
                  rows == clients'[k].res.rows
                  matching ==
                      {t \in db.trades :
                          /\ t.sub_account_id = <<q.subAccountId>>
                          /\ \E a \in db.sub_accounts :
                                a.id = q.subAccountId /\ a.user_id = t.user_id}
              IN /\ clients'[k].res.settled = "resolved"
                 /\ ~ SubAccountExists(db, q.subAccountId) => rows = <<>>
                 /\ {rows[i] : i \in 1..Len(rows)} = matching
                 /\ Len(rows) = Cardinality(matching) ]_vars

\* C19: findTradesBySubAccountId resolves the empty sequence when the
\* sub-account is not stored, and otherwise the page (limit, offset) of the
\* trades that refer to the sub-account and belong to its owner: only such
\* trades, none twice, and all of them when they are fewer than the limit
\* and the offset is 0
C19_ReturnsPageOfSubAccount ==
    [][ \A k \in Clients :
          ( /\ clients[k].req.op = "findTradesBySubAccountId"
            /\ clients'[k].req = NoRequest ) =>
              LET q == clients[k].req
                  rows == clients'[k].res.rows
                  matching ==
                      {t \in db.trades :
                          /\ t.sub_account_id = <<q.subAccountId>>
                          /\ \E a \in db.sub_accounts :
                                a.id = q.subAccountId /\ a.user_id = t.user_id}
                  left == Cardinality(matching) - q.offset
              IN /\ clients'[k].res.settled = "resolved"
                 /\ ~ SubAccountExists(db, q.subAccountId) => rows = <<>>
                 /\ \A i \in 1..Len(rows) : rows[i] \in matching
                 /\ \A i, j \in 1..Len(rows) : rows[i] = rows[j] => i = j
                 /\ Len(rows) = IF left < 0 THEN 0
                                ELSE IF left < q.limit THEN left ELSE q.limit ]_vars

\* a find with the default limit resolved one trade while another user's
\* trade refers to the same sub-account
C19_Witness ==
    \E k \in Clients :
        /\ clients[k].res.op = "findTradesBySubAccountId"
        /\ clients[k].res.found
        /\ clients[k].res.req.limit = DefaultLimit
        /\ Len(clients[k].res.rows) = 1
        /\ \E a \in db.sub_accounts, t \in db.trades :
              /\ a.id = clients[k].res.req.subAccountId
              /\ t.sub_account_id = <<a.id>>
              /\ t.user_id # a.user_id
              /\ clients[k].res.rows[1].user_id = a.user_id
              /\ clients[k].res.rows[1].sub_account_id = <<a.id>>

\* C20: no two stored sub-accounts of one user have the same name; a
\* createSubAccount or updateSubAccount that would give a user two
\* sub-accounts of one name rejects with the UNIQUE error and changes
\* nothing; a createSubAccount for a stored user who has no sub-account of
\* that name resolves and stores it, whatever names other users have
C20_NamesUniquePerUser ==
    [][ /\ \A a, b \in db'.sub_accounts :
              (a.user_id = b.user_id /\ a.name = b.name) => a.id = b.id
        /\ \A k \in Clients :
              LET q == clients[k].req
                  UniqueError ==
                      /\ clients'[k].res.settled = "rejected"
                      /\ clients'[k].res.err =
                            "SQLITE_CONSTRAINT: UNIQUE constraint failed: sub_accounts.user_id, sub_accounts.name"
                      /\ db' = db
              IN /\ ( /\ q.op = "createSubAccount"
                      /\ clients'[k].req = NoRequest
                      /\ \E a \in db.sub_accounts :
                            a.user_id = q.userId /\ a.name = q.name ) => UniqueError
                 /\ ( /\ q.op = "updateSubAccount"
                      /\ clients'[k].req = NoRequest
                      /\ \E a, b \in db.sub_accounts :
                            /\ a.id = q.id /\ b.id # q.id
                            /\ b.user_id = a.user_id /\ b.name = q.name ) => UniqueError
                 /\ ( /\ q.op = "createSubAccount"
                      /\ clients'[k].req = NoRequest
                      /\ UserExists(db, q.userId)
                      /\ \A a \in db.sub_accounts :
                            ~ (a.user_id = q.userId /\ a.name = q.name) ) =>
                        /\ clients'[k].res.settled = "resolved"
                        /\ \E a \in db'.sub_accounts \ db.sub_accounts :
                              /\ a.id = clients'[k].res.id
                              /\ a.user_id = q.userId /\ a.name = q.name ]_vars

\* an updateSubAccount that renames a sub-account to the name of another
\* one of its user was rejected, while two users each have a sub-account of
\* one name
C20_Witness ==
    \E k \in Clients :
        /\ clients[k].res.op = "updateSubAccount"
        /\ clients[k].res.settled = "rejected"
        /\ clients[k].res.err =
              "SQLITE_CONSTRAINT: UNIQUE constraint failed: sub_accounts.user_id, sub_accounts.name"
        /\ \E a, b \in db.sub_accounts :
              /\ a.id = clients[k].res.req.id /\ b.id # a.id
              /\ b.user_id = a.user_id /\ b.name = clients[k].res.req.name
        /\ \E a, b \in db.sub_accounts : a.user_id # b.user_id /\ a.name = b.name

\* C21: no two user rows have the same username or the same email; a
\* createUser whose username or email is that of a stored user rejects with
\* a UNIQUE error and leaves every row as it was
C21_UsernamesAndEmailsUnique ==
    [][ /\ \A a, b \in db'.users :
              (a.username = b.username \/ a.email = b.email) => a.id = b.id
        /\ \A k \in Clients :
              ( /\ clients[k].req.op = "createUser"
                /\ clients'[k].req = NoRequest
                /\ \E u \in db.users :
                      \/ u.username = clients[k].req.username
                      \/ u.email = clients[k].req.email ) =>
                  /\ clients'[k].res.settled = "rejected"
                  /\ clients'[k].res.err \in
                        {"SQLITE_CONSTRAINT: UNIQUE constraint failed: users.username",
                         "SQLITE_CONSTRAINT: UNIQUE constraint failed: users.email"}
                  /\ db' = db ]_vars

\* C22: while a connection that was constructed is opening or open, every
\* connectToDatabase call, the one inside initDB included, yields that
\* connection and constructs no other; at most one connection is opening or
\* open at a time
C22_OpenedOnce ==
    [][ /\ \A p \in Procs, h \in Connections :
              ( /\ ops' = ops + 1
                /\ procs'[p] # procs[p]
                /\ procs'[p].op \in {"connectToDatabase", "initDB"}
                /\ connections[h].state \in {"opening", "open"} ) =>
                  /\ made' = made
                  /\ procs'[p].got = h
                  /\ connections'[h].state = connections[h].state
        /\ Cardinality({h \in Connections :
                           connections'[h].state \in {"opening", "open"}}) <= 1
        /\ \A h \in Connections :
              connections'[h].state \in {"opening", "open"} => handle' = h ]_vars

\* a second caller called connectToDatabase while the first open was in
\* progress: it has the one connection that was constructed
C22_Witness ==
    \E p, q \in Procs :
        /\ p # q
        /\ procs[p].op = "connectToDatabase" /\ procs[p].pc = "opening"
        /\ procs[q].op = "connectToDatabase" /\ procs[q].settled = "returned"
        /\ procs[q].got = 1
        /\ connections[1].state = "opening"
        /\ made = 1

\* C23: a handle connectToDatabase has handed out had foreign keys enabled
\* at that moment, and a connection whose PRAGMA failed is not the module's
\* handle
C23_ForeignKeysEnabled ==
    /\ \A p \in Procs :
          ( /\ procs[p].op = "connectToDatabase"
            /\ procs[p].settled \in {"returned", "resolved"} ) => procs[p].fk
    /\ \A h \in Connections :
          ( /\ connections[h].state = "open"
            /\ ~ connections[h].fk
            /\ \A i \in 1..Len(connections[h].work) :
                  connections[h].work[i].op # "pragma" ) => handle # h

\* C24: closeDb never rejects
C24_CloseIsIdempotent ==
    \A p \in Procs : procs[p].op = "closeDb" => procs[p].settled # "rejected"

\* C25: when initDB has resolved, every schema statement it queued had
\* completed before, and none of them fails
C25_ResolvesAfterSchema ==
    \A p \in Procs :
        (procs[p].op = "initDB" /\ procs[p].settled = "resolved") =>
            procs[p].left = 0 /\ procs[p].failed = {}

C27_RollbackKeepsOthersWrites ==
    [][ \A c \in Calls :
          (calls[c].pc = "rollback" /\ calls'[c].pc = "done") =>
              /\ db.trades \subseteq db'.trades
              /\ \A u \in db.users : u.by = 0 => u \in db'.users ]_vars

\* C28: once every createUserWithSettings call that was made has run all
\* its statements, each call has settled, each call that resolved has its
\* user row and its settings row stored, each call that rejected has
\* neither, and no transaction is open
C28_CallsSettleAllOrNothing ==
    (\A c \in Calls : calls[c].pc \in {"idle", "done"}) =>
        /\ ~ journal.active
        /\ \A c \in Calls :
              calls[c].pc = "done" =>
                  /\ calls[c].promise \in {"resolved", "rejected"}
                  /\ calls[c].promise = "resolved" =>
                        /\ \E u \in db.users : u.by = c /\ u.id = calls[c].value
                        /\ \E x \in db.user_settings :
                              x.by = c /\ x.user_id = calls[c].value
                  /\ calls[c].promise = "rejected" =>
                        /\ \A u \in db.users : u.by # c
                        /\ \A x \in db.user_settings : x.by # c

\* C29: when two closeTrade calls for the same open trade were in flight
\* together and both have settled, exactly one of them resolved true, and
\* the stored exit_price, exit_date, notes and commission are the ones the
\* call that resolved true supplied (notes and commission kept where it
\* supplied none)
C29_OneCloserWins ==
    (\A k \in Closers : clients[k].res # NoResult) =>
        \E w \in Closers :
            LET cd == clients[w].res.req.closeData
                t == SelectTradeById(db, 1)
            IN /\ clients[w].res.flag
               /\ \A k \in Closers \ {w} : ~ clients[k].res.flag
               /\ t.status = "closed"
               /\ t.exit_price = cd.exitPrice
               /\ t.exit_date = cd.exitDate
               /\ t.notes = Coalesce(Bind(cd.notes), "Initial trade notes")
               /\ t.commission = Coalesce(Bind(cd.commission), "1.99")

\* C30: in every reachable state a trade with status 'closed' has a
\* non-null exit_price and exit_date, and a trade with status 'open' has
\* a null exit_price and exit_date
C30_StatusMatchesExitData ==
    \A t \in db.trades :
        /\ t.status = "closed" => (t.exit_price # Null /\ t.exit_date # Null)
        /\ t.status = "open" => (t.exit_price = Null /\ t.exit_date = Null)

====
